---- MODULE Spec2Model ----
(***************************************************************************)
(* Vimshottari period hierarchy and KP positional indexing of the          *)
(* Vedic-astrology demo service (app/astrology/engine.py, its fallback     *)
(* app/astrology/engine_stub.py, and the routes of app/main.py).           *)
(*                                                                         *)
(* Time.  A Julian date near 2.4e6 is a binary64 number on a uniform grid  *)
(* of 2^-31 day.  The model counts time in ticks of that grid, relative to *)
(* an integer-day epoch.  Every sum `cursor + span` of the source rounds   *)
(* to the nearest tick, which RoundDiv models.  The tolerance 1e-9 day is  *)
(* 2.147 ticks, so `x - 1e-9` is x - 2 ticks on the grid.  The calendar is *)
(* compressed: a day is DayTicks ticks instead of 2^31, and 1e-6 day keeps *)
(* its place between the 1e-9 tolerance and one day.                       *)
(*                                                                         *)
(* Longitude.  A longitude is an integer count of 1/SegUnits of a          *)
(* nakshatra (360/27 degrees), so a circle is 27 * SegUnits units.         *)
(***************************************************************************)
EXTENDS Integers, Sequences, FiniteSets, TLC

\* ------------------------------------------------------------------ bounds
DayTicks == 6
SegUnits == 36000
MaxBirthTick == 2
MaxChart == 3
SubSteps == 4

\* --------------------------------------------------------------- constants
VIM_SEQUENCE == <<"ketu", "venus", "sun", "moon", "mars", "rahu", "jupiter", "saturn", "mercury">>
VIM_DURATIONS_YEARS == [ketu |-> 7, venus |-> 20, sun |-> 6, moon |-> 10, mars |-> 7,
                        rahu |-> 18, jupiter |-> 16, saturn |-> 19, mercury |-> 17]
VIM_TOTAL_YEARS == 120
NakCount == 27
EPS_NANO == 2
EPS_MICRO == 3

Lords == {VIM_SEQUENCE[i] : i \in 1..9}

\* ydays = 365.2425 days, in ticks
YearTicks == DayTicks * 365 + (DayTicks * 2425) \div 10000

\* NAK_SPAN_DEG = 360/27 degrees, in longitude units
NAK_SPAN_DEG == SegUnits

Circle == NakCount * SegUnits

None == [none |-> TRUE]

\* ----------------------------------------------------------------- helpers
Min(a, b) == IF a <= b THEN a ELSE b

MinOf(S) == CHOOSE x \in S : \A y \in S : x <= y

\* nearest integer to n/d for n >= 0, d > 0 (a binary64 sum rounding to the grid)
RoundDiv(n, d) == (n + d \div 2) \div d

\* str.title() and str.lower() on the nine lord names
Title == [ketu |-> "Ketu", venus |-> "Venus", sun |-> "Sun", moon |-> "Moon", mars |-> "Mars",
          rahu |-> "Rahu", jupiter |-> "Jupiter", saturn |-> "Saturn", mercury |-> "Mercury"]

Lower(s) == IF s \in Lords THEN s ELSE CHOOSE l \in Lords : Title[l] = s

\* VIM_SEQUENCE.index(lord), 0-based
VimIndex(lord) == CHOOSE i \in 0..8 : VIM_SEQUENCE[i + 1] = lord

\* VIM_SEQUENCE[i] with a 0-based index
VimAt(i) == VIM_SEQUENCE[i + 1]

\* [VIM_SEQUENCE[(idx0 + i) % 9] for i in range(9)]
Rotated(lord) == [i \in 1..9 |-> VimAt((VimIndex(lord) + i - 1) % 9)]

\* sum of the weights of the first k lords of a sequence
RECURSIVE CumWeight(_, _)
CumWeight(seq, k) == IF k = 0 THEN 0 ELSE VIM_DURATIONS_YEARS[seq[k]] + CumWeight(seq, k - 1)

\* float(x) % 360.0, shifted if negative
normalize_deg(x) == LET r == x % Circle IN IF r < 0 THEN r + Circle ELSE r

\* ------------------------------------------- KP star-lord and sub-lord
\* int(normalize_deg(lon) // NAK_SPAN_DEG)
nak_index(lon) == normalize_deg(lon) \div NAK_SPAN_DEG

\* a lord for every three consecutive nakshatras instead of one in nine
star_lord_at_mut(lon) == VimAt(nak_index(lon) \div 3)

star_lord_at(lon) == VimAt(nak_index(lon) % 9)

\* the cycle as it is, whatever the nakshatra
sub_lord_seq_mut(n0) == VIM_SEQUENCE

\* seq of sub_lord_at: the cycle rotated to the nakshatra's star-lord
sub_lord_seq(n0) == Rotated(VimAt(n0 % 9))

\* The loop of sub_lord_at.  f = off / NAK_SPAN_DEG and cum = c / 120 are
\* compared exactly by cross-multiplication; on the unit grid
\* abs(f - (cum + seg)) < 1e-12 holds exactly when f = cum + seg.
\* Returns the lord and the iteration that returned it (0: fell through).
RECURSIVE sub_lord_loop(_, _, _, _)
sub_lord_loop(seq, off, i, c) ==
    IF i > 9 THEN [lord |-> seq[9], iter |-> 0]
    ELSE LET w == VIM_DURATIONS_YEARS[seq[i]]
             f == off * VIM_TOTAL_YEARS
         IN  IF (c * NAK_SPAN_DEG <= f /\ f < (c + w) * NAK_SPAN_DEG)
                \/ f = (c + w) * NAK_SPAN_DEG
             THEN [lord |-> seq[i], iter |-> i]
             ELSE sub_lord_loop(seq, off, i + 1, c + w)

sub_lord_scan(lon) ==
    LET l == normalize_deg(lon)
        n0 == l \div NAK_SPAN_DEG
        off == l - n0 * NAK_SPAN_DEG
    IN  sub_lord_loop(sub_lord_seq(n0), off, 1, 0)

sub_lord_at(lon) == sub_lord_scan(lon).lord

\* ------------------------------------------------- Vimshottari dasha
Engines == {"engine", "engine_stub"}

\* (nakshatra index, fraction inside it as num/den).  engine.py reads the
\* Moon's longitude; engine_stub.py derives both from jd_ut * 27.
moon_nakshatra_fraction(eng, jd, moon) ==
    IF eng = "engine"
    THEN LET l == normalize_deg(moon)
             idx == l \div NAK_SPAN_DEG
         IN  [idx |-> idx, num |-> l - idx * NAK_SPAN_DEG, den |-> NAK_SPAN_DEG]
    ELSE LET x == jd * NakCount
         IN  [idx |-> (x \div DayTicks) % NakCount, num |-> x % DayTicks, den |-> DayTicks]

first_lord(nf) == VimAt(nf.idx % 9)

\* the elapsed portion instead of the remaining one
remaining_ticks_mut(lord, nf) ==
    RoundDiv(VIM_DURATIONS_YEARS[lord] * YearTicks * nf.num, nf.den)

\* remaining_years * ydays, rounded onto the grid by start + ...
remaining_ticks(lord, nf) ==
    RoundDiv(VIM_DURATIONS_YEARS[lord] * YearTicks * (nf.den - nf.num), nf.den)

\* years of 365 days
full_span_mut(lord) == VIM_DURATIONS_YEARS[lord] * DayTicks * 365

\* VIM_DURATIONS_YEARS[lord] * ydays
full_span(lord) == VIM_DURATIONS_YEARS[lord] * YearTicks

\* the guard day left out and the horizon one year short
max_jd_mut(start) == start + (VIM_TOTAL_YEARS - 1) * YearTicks

\* start + VIM_TOTAL_YEARS * ydays + 1.0
max_jd(start) == start + VIM_TOTAL_YEARS * YearTicks + DayTicks

\* while cur < max_jd - 1e-6 (engine.py);  while cur < max_jd (engine_stub.py)
roll_guard(eng, c, start) ==
    IF eng = "engine" THEN c < max_jd(start) - EPS_MICRO ELSE c < max_jd(start)

DashaPeriod(lord, s, e) == [planet |-> Title[lord], start_jd |-> s, end_jd |-> e]

\* ------------------------------------------------- subdivision
\* tolerance of the early exit and of the antara filter
sub_tol(eng) == IF eng = "engine" THEN EPS_NANO ELSE EPS_MICRO

\* no rotation in either engine
child_seq_mut(eng, parent_lord) == VIM_SEQUENCE

\* engine.py rotates the cycle to the parent's lord; engine_stub.py walks
\* VIM_SEQUENCE as it is
child_seq(eng, parent_lord) == IF eng = "engine" THEN Rotated(parent_lord) ELSE VIM_SEQUENCE

add_block(level, lord, s, e, parent) ==
    [level |-> level, lord |-> lord, parent |-> parent, start_jd |-> s, end_jd |-> e]

\* one child loop: span = len * (w / 120), end = min(cursor + span, p_end),
\* break once cursor >= p_end - tol
RECURSIVE child_loop(_, _, _, _, _, _, _, _)
child_loop(level, parent, seq, i, cursor, p_len, p_end, tol) ==
    IF i > Len(seq) THEN <<>>
    ELSE LET lord == seq[i]
             span == RoundDiv(p_len * VIM_DURATIONS_YEARS[lord], VIM_TOTAL_YEARS)
             c_end == Min(cursor + span, p_end)
             blk == add_block(level, lord, cursor, c_end, parent)
         IN  IF c_end >= p_end - tol
             THEN <<blk>>
             ELSE <<blk>> \o child_loop(level, parent, seq, i + 1, c_end, p_len, p_end, tol)

RECURSIVE praty_loop(_, _, _, _)
praty_loop(eng, A, k, tol) ==
    IF k > Len(A) THEN <<>>
    ELSE LET a == A[k]
         IN  child_loop("pratyantara", a.lord, child_seq(eng, a.lord), 1,
                        a.start_jd, a.end_jd - a.start_jd, a.end_jd, tol)
             \o praty_loop(eng, A, k + 1, tol)

\* body of the loop over dasha_ctx.periods for one maha, given `out` so far
maha_block(eng, maha, out, levels) ==
    LET m_lord == Lower(maha.planet)
        m_start == maha.start_jd
        m_end == maha.end_jd
        tol == sub_tol(eng)
        out1 == Append(out, add_block("maha", m_lord, m_start, m_end, None))
        out2 == IF levels < 2 THEN out1
                ELSE out1 \o child_loop("antara", m_lord, child_seq(eng, m_lord), 1,
                                        m_start, m_end - m_start, m_end, tol)
        Sel(x) == /\ x.level = "antara"
                  /\ x.parent = m_lord
                  /\ m_start - tol <= x.start_jd
                  /\ x.start_jd <= m_end + tol
    IN  IF levels < 3 THEN out2
        ELSE out2 \o praty_loop(eng, SelectSeq(out2, Sel), 1, tol)

RECURSIVE subdivide_from(_, _, _, _, _)
subdivide_from(eng, ps, i, out, levels) ==
    IF i > Len(ps) THEN out
    ELSE subdivide_from(eng, ps, i + 1, maha_block(eng, ps[i], out, levels), levels)

\* maha.planet raises AttributeError on an object without that attribute
subdivide_vimshottari(eng, ps, levels) ==
    IF \E i \in 1..Len(ps) : "planet" \notin DOMAIN ps[i]
    THEN [ok |-> FALSE, error |-> "AttributeError", out |-> <<>>]
    ELSE [ok |-> TRUE, error |-> "", out |-> subdivide_from(eng, ps, 1, <<>>, levels)]

\* ------------------------------------------------- containment query
\* closed at both ends
contains_mut(p, t) == p.start_jd <= t /\ t <= p.end_jd

\* p.start_jd <= asof_jd < p.end_jd
contains(p, t) == p.start_jd <= t /\ t < p.end_jd

\* first element of s containing t (the for ... break / next(...) scans)
first_containing(s, t) ==
    LET hits == {i \in 1..Len(s) : contains(s[i], t)}
    IN  IF hits = {} THEN None ELSE s[MinOf(hits)]

OfLevel(s, level) == LET T(x) == x.level = level IN SelectSeq(s, T)

\* ------------------------------------------------ signs and houses
SIGNS == <<"Aries", "Taurus", "Gemini", "Cancer", "Leo", "Virgo",
           "Libra", "Scorpio", "Sagittarius", "Capricorn", "Aquarius", "Pisces">>

RULERS ==
    [Aries |-> "mars", Taurus |-> "venus", Gemini |-> "mercury", Cancer |-> "moon",
     Leo |-> "sun", Virgo |-> "mercury", Libra |-> "venus", Scorpio |-> "mars",
     Sagittarius |-> "jupiter", Capricorn |-> "saturn", Aquarius |-> "saturn",
     Pisces |-> "jupiter"]

\* the keys of PLANETS, in the order of the dict
PLANETS == <<"sun", "moon", "mercury", "venus", "mars", "jupiter", "saturn", "rahu", "ketu">>

\* 30 degrees are a twelfth of the circle: floor(lon / 30.0)
sign_from_longitude(lon) == SIGNS[((normalize_deg(lon) * 12) \div Circle) + 1]

\* forward arc a -> b in [0, 360)
_arc(a, b) == (normalize_deg(b) - normalize_deg(a)) % Circle

\* sum(_arc(cusps[j], cusps[(j+1) % 12]) for j in range(n)), cusps 1-based
RECURSIVE sum_arcs(_, _)
sum_arcs(cusps, n) ==
    IF n = 0 THEN 0
    ELSE sum_arcs(cusps, n - 1) + _arc(cusps[n], cusps[(n % 12) + 1])

\* the loop of house_num_of_lon from house i on; 1e-12 degree is below the
\* grid step, so abs(_arc(a, lon) - width) < 1e-12 is equality
RECURSIVE house_loop(_, _, _)
house_loop(lon, cusps, i) ==
    IF i > 12 THEN 1
    ELSE LET a == cusps[i]
             b == cusps[(i % 12) + 1]
             width == IF i < 12 THEN _arc(a, b) ELSE Circle - sum_arcs(cusps, 11)
         IN  IF _arc(a, lon) < width \/ _arc(a, lon) = width
             THEN i
             ELSE house_loop(lon, cusps, i + 1)

house_num_of_lon(lon, cusps) == house_loop(normalize_deg(lon), cusps, 1)

\* ------------------------------------------------------ natal chart
\* 180 degrees
HALF_TURN == Circle \div 2

\* normalize_deg(_scalar(sw.calc_ut(jd_ut, body, FLAGS))), eph being what
\* the ephemeris answers for the birth instant; rahu and ketu both ask for
\* the mean node
calc_lon(eph, body) == normalize_deg(eph.lons[IF body = "ketu" THEN "rahu" ELSE body])

\* ketu sits where rahu does, not opposite, and is not brought into the circle
ketu_lon_mut(rahu_lon) == rahu_lon + Circle

\* longs["ketu"] = normalize_deg(rahu_lon + 180.0)
ketu_lon(rahu_lon) == normalize_deg(rahu_lon + HALF_TURN)

natal_failure(error, calls) == [ok |-> FALSE, error |-> error, calls |-> calls, natal |-> None]

\* engine.compute_natal; calls counts the requests made to the ephemeris
\* (nine calc_ut, then houses) before the function returns or raises
engine_compute_natal(birth, eph) ==
    IF birth.utc_iso = "absent" THEN natal_failure("ValueError", 0)
    ELSE IF birth.latitude = "absent" \/ birth.longitude = "absent"
    THEN natal_failure("ValueError", 0)
    ELSE IF birth.utc_iso = "garbage" THEN natal_failure("ValueError", 0)
    ELSE IF birth.latitude = "null" \/ birth.longitude = "null"
    THEN natal_failure("TypeError", Len(PLANETS))
    ELSE LET longs == [p \in Lords |->
                          IF p = "ketu"
                          THEN ketu_lon(calc_lon(eph, "rahu"))
                          ELSE calc_lon(eph, p)]
             cusps == [i \in 1..12 |-> normalize_deg(eph.cusps[i])]
         IN  [ok |-> TRUE, error |-> "", calls |-> Len(PLANETS) + 1,
              natal |-> [utc_birth_dt |-> birth.instant,
                         ascendant_deg |-> cusps[1],
                         moon_sign |-> sign_from_longitude(longs["moon"]),
                         planet_longitudes |-> longs,
                         house_map |-> [i \in 1..12 |-> sign_from_longitude(cusps[i])],
                         house_cusps_deg |-> cusps]]

\* engine_stub.compute_natal: no ephemeris; the longitudes come from a hash
\* of the birth data and the ascendant from the birth longitude and hour,
\* houses are 30 degrees each; the context has no cusp list
stub_compute_natal(birth, eph) ==
    IF birth.utc_iso = "absent" THEN natal_failure("ValueError", 0)
    ELSE IF birth.latitude = "absent" \/ birth.longitude = "absent"
    THEN natal_failure("ValueError", 0)
    ELSE IF birth.utc_iso = "garbage" THEN natal_failure("ValueError", 0)
    ELSE IF birth.latitude = "null" \/ birth.longitude = "null"
    THEN natal_failure("TypeError", 0)
    ELSE LET hashed == [p \in Lords \ {"ketu"} |-> normalize_deg(eph.lons[p])]
             longs == [p \in Lords |->
                          IF p = "ketu"
                          THEN ketu_lon(hashed["rahu"])
                          ELSE hashed[p]]
             ascendant_deg == normalize_deg(eph.cusps[1])
             houses == [i \in 1..12 |->
                           normalize_deg(ascendant_deg + ((i - 1) * Circle) \div 12)]
         IN  [ok |-> TRUE, error |-> "", calls |-> 0,
              natal |-> [utc_birth_dt |-> birth.instant,
                         ascendant_deg |-> ascendant_deg,
                         moon_sign |-> sign_from_longitude(longs["moon"]),
                         planet_longitudes |-> longs,
                         house_map |-> [i \in 1..12 |-> sign_from_longitude(houses[i])]]]

compute_natal(eng, birth, eph) ==
    IF eng = "engine" THEN engine_compute_natal(birth, eph) ELSE stub_compute_natal(birth, eph)

\* houses whose cusp sign is ruled by the planet
planet_owned_houses(natal, planet) ==
    {h \in 1..12 : RULERS[natal.house_map[h]] = Lower(planet)}

\* what the calls of add() for one package put on house h: w for the
\* placement house of the lord (when the lord has a longitude) and w again
\* for each house the lord owns
package(natal, lord, w, h) ==
    (IF lord \in DOMAIN natal.planet_longitudes
        /\ house_num_of_lon(natal.planet_longitudes[lord], natal.house_cusps_deg) = h
     THEN w ELSE 0)
    + (IF h \in planet_owned_houses(natal, lord) THEN w ELSE 0)

\* planet_significators with the star-lord package weighted like the planet
planet_significators_mut(natal) ==
    [p \in DOMAIN natal.planet_longitudes |->
        LET p_lon == natal.planet_longitudes[p]
            s_lord == star_lord_at(p_lon)
            sign_lord == RULERS[sign_from_longitude(p_lon)]
            total == [h \in 1..12 |->
                         package(natal, s_lord, 2, h) + package(natal, p, 2, h)
                         + package(natal, sign_lord, 1, h)]
        IN  [h \in {k \in 1..12 : total[k] > 0} |-> total[h]]]

\* engine.planet_significators: per planet the map house -> weight; a
\* house is a key of the map only if some add() touched it
planet_significators(natal) ==
    [p \in DOMAIN natal.planet_longitudes |->
        LET p_lon == natal.planet_longitudes[p]
            s_lord == star_lord_at(p_lon)
            sign_lord == RULERS[sign_from_longitude(p_lon)]
            total == [h \in 1..12 |->
                         package(natal, s_lord, 3, h) + package(natal, p, 2, h)
                         + package(natal, sign_lord, 1, h)]
        IN  [h \in {k \in 1..12 : total[k] > 0} |-> total[h]]]

\* ------------------------------------------------------------- state
VARIABLES route, engine, jd_ut, moon_lon, pc, periods, cur, seq_idx, subs,
          asof_jd, maha, resp, lon_in, star, subl, norm,
          birth, eph, natal, eph_calls, house, sig,
          query, kept, rows, pool, ranked, chosen,
          rule_lib, reqs

vars == <<route, engine, jd_ut, moon_lon, pc, periods, cur, seq_idx, subs,
          asof_jd, maha, resp, lon_in, star, subl, norm,
          birth, eph, natal, eph_calls, house, sig,
          query, kept, rows, pool, ranked, chosen,
          rule_lib, reqs>>

dashaVars == <<periods, cur, seq_idx>>
queryVars == <<asof_jd, maha, resp>>
lonVars == <<lon_in, star, subl, norm>>
natalVars == <<birth, eph, natal, eph_calls, house, sig>>
selVars == <<query, kept, rows>>
eventVars == <<pool, ranked, chosen>>
predictVars == <<rule_lib, reqs>>
inputVars == <<route, engine, jd_ut, moon_lon>>

\* values of the variables a route does not use
NoNorm == [in |-> 0, out |-> 0, again |-> 0]

NoBirth == [utc_iso |-> "absent", instant |-> 0, latitude |-> "absent", longitude |-> "absent"]

NoEph == [lons |-> [p \in Lords \ {"ketu"} |-> 0], cusps |-> [i \in 1..12 |-> 0]]

NoQuery == [question |-> "marriage", direction |-> "nearest", anchor |-> None]

NatalIdle ==
    /\ birth = NoBirth
    /\ eph = NoEph
    /\ natal = None
    /\ eph_calls = 0
    /\ house = [lon |-> 0, num |-> 1]
    /\ sig = <<>>

SelectIdle ==
    /\ query = NoQuery
    /\ kept = <<>>
    /\ rows = <<>>

EventIdle ==
    /\ pool = <<>>
    /\ ranked = <<>>
    /\ chosen = None

\* the rule library before it is loaded, and no request in flight
PredictIdle ==
    /\ rule_lib = <<>>
    /\ reqs = <<>>

Routes == {"predict_event", "debug_dba_active"}

\* every caller of compute_vimshottari_dasha_for_birth
DashaRoutes == Routes \cup {"select_dba_windows"}

BirthJds == 0..MaxBirthTick

MoonOffsets == {0, 1, SegUnits \div 2, SegUnits - 5, SegUnits - 3, SegUnits - 2, SegUnits - 1}

MoonLons == {n * SegUnits + o : n \in 0..(NakCount - 1), o \in MoonOffsets}

Init ==
    /\ route \in Routes
    /\ engine \in Engines
    /\ jd_ut \in BirthJds
    /\ moon_lon \in MoonLons
    /\ engine = "engine_stub" => moon_lon = 0
    /\ pc = "start"
    /\ periods = <<>>
    /\ cur = 0
    /\ seq_idx = 0
    /\ subs = <<>>
    /\ asof_jd = 0
    /\ maha = None
    /\ resp = None
    /\ lon_in = 0
    /\ star = "ketu"
    /\ subl = [lord |-> "ketu", iter |-> 1]
    /\ norm = NoNorm
    /\ NatalIdle
    /\ SelectIdle
    /\ EventIdle
    /\ PredictIdle

\* compute_vimshottari_dasha_for_birth up to the loop head
FirstMaha ==
    /\ pc = "start"
    /\ route \in DashaRoutes
    /\ LET nf == moon_nakshatra_fraction(engine, jd_ut, moon_lon)
           lord == first_lord(nf)
           end == jd_ut + remaining_ticks(lord, nf)
       IN  /\ periods' = <<DashaPeriod(lord, jd_ut, end)>>
           /\ cur' = end
           /\ seq_idx' = (VimIndex(lord) + 1) % 9
    /\ pc' = "roll"
    /\ UNCHANGED <<inputVars, eventVars, predictVars, natalVars, selVars, subs, queryVars, lonVars>>

\* one iteration of the roll-forward loop
RollForward ==
    /\ pc = "roll"
    /\ roll_guard(engine, cur, jd_ut)
    /\ LET lord == VimAt(seq_idx % 9)
           nxt == cur + full_span(lord)
       IN  /\ periods' = Append(periods, DashaPeriod(lord, cur, nxt))
           /\ cur' = nxt
           /\ seq_idx' = seq_idx + 1
    /\ UNCHANGED <<inputVars, eventVars, predictVars, natalVars, selVars, pc, subs, queryVars, lonVars>>

\* loop exit: the DashaContext is returned
RollDone ==
    /\ pc = "roll"
    /\ ~roll_guard(engine, cur, jd_ut)
    /\ pc' = "built"
    /\ UNCHANGED <<inputVars, eventVars, predictVars, natalVars, selVars, dashaVars, subs, queryVars, lonVars>>

\* predict_event: subs = subdivide_vimshottari(dasha, levels=3)
Subdivide ==
    /\ pc = "built"
    /\ route = "predict_event"
    /\ subs' = subdivide_vimshottari(engine, periods, 3).out
    /\ pc' = "subdivided"
    /\ UNCHANGED <<inputVars, eventVars, predictVars, natalVars, selVars, dashaVars, queryVars, lonVars>>

\* as-of instants worth asking about: around every boundary of the ladder
AsofCandidates ==
    UNION {{periods[i].start_jd + d, periods[i].end_jd + d} : i \in 1..Len(periods), d \in {-1, 0, 1}}
    \cup {periods[i].start_jd + (periods[i].end_jd - periods[i].start_jd) \div 2 : i \in 1..Len(periods)}

\* debug_dba_active after the dasha is built
DebugDbaActive ==
    /\ pc = "built"
    /\ route = "debug_dba_active"
    /\ \E asof \in AsofCandidates :
        LET p == first_containing(periods, asof)
            m == IF p = None THEN None
                 ELSE [lord |-> Lower(p.planet), start_jd |-> p.start_jd, end_jd |-> p.end_jd]
            sub_all == subdivide_vimshottari(engine, <<m>>, 3)
        IN  /\ asof_jd' = asof
            /\ maha' = m
            /\ resp' = IF m = None
                       THEN [error |-> "as-of date outside computed dasha window"]
                       ELSE IF ~sub_all.ok
                       THEN [error |-> sub_all.error]
                       ELSE [maha |-> m,
                             antara |-> first_containing(OfLevel(sub_all.out, "antara"), asof),
                             pratyantara |-> first_containing(OfLevel(sub_all.out, "pratyantara"), asof)]
    /\ pc' = "answered"
    /\ UNCHANGED <<inputVars, eventVars, predictVars, natalVars, selVars, dashaVars, subs, lonVars>>

Next == FirstMaha \/ RollForward \/ RollDone \/ Subdivide \/ DebugDbaActive

Spec == Init /\ [][Next]_vars

\* ----------------------------------------- positional queries (pure)
\* the partial sums of the weights along every rotation of the cycle
BoundaryWeights == {CumWeight(Rotated(l), k) : l \in Lords, k \in 1..8}

LonOffsets ==
    {0, 1, SegUnits - 1}
    \cup {((c * SegUnits) \div VIM_TOTAL_YEARS) + d : c \in BoundaryWeights, d \in {-1, 0, 1}}

LonInputs ==
    {n * SegUnits + o + k * Circle : n \in 0..(NakCount - 1), o \in LonOffsets, k \in {-1, 0, 1}}

InitLon ==
    /\ route = "positions"
    /\ engine = "engine"
    /\ jd_ut = 0
    /\ moon_lon = 0
    /\ pc = "idle"
    /\ periods = <<>>
    /\ cur = 0
    /\ seq_idx = 0
    /\ subs = <<>>
    /\ asof_jd = 0
    /\ maha = None
    /\ resp = None
    /\ lon_in = 0
    /\ star = "ketu"
    /\ subl = [lord |-> "ketu", iter |-> 1]
    /\ norm = NoNorm
    /\ NatalIdle
    /\ SelectIdle
    /\ EventIdle
    /\ PredictIdle

\* star_lord_at(lon) and sub_lord_at(lon) for one longitude
Locate ==
    /\ route = "positions"
    /\ pc = "idle"
    /\ \E l \in LonInputs :
        /\ lon_in' = l
        /\ star' = star_lord_at(l)
        /\ subl' = sub_lord_scan(l)
    /\ UNCHANGED norm
    /\ pc' = "located"
    /\ UNCHANGED <<inputVars, eventVars, predictVars, natalVars, selVars, dashaVars, subs, queryVars>>

\* ------------------------------------- normalize_deg in binary64
\* binary64 steps are finer near 0 than near 360.  Here a value is counted
\* in sub-steps, SubSteps to a grid unit: a value smaller than one grid
\* unit is kept to the sub-step, a larger one sits on the grid.
CircleSub == Circle * SubSteps

\* the binary64 value nearest to v > 0, ties to the even grid point
nearest_float(v) ==
    IF v < SubSteps THEN v
    ELSE LET q == v \div SubSteps
             r == v % SubSteps
         IN  IF 2 * r < SubSteps THEN q * SubSteps
             ELSE IF 2 * r > SubSteps THEN (q + 1) * SubSteps
             ELSE IF q % 2 = 0 THEN q * SubSteps ELSE (q + 1) * SubSteps

\* float(x) % 360.0: the remainder of fmod is exact and has the sign of x;
\* a negative remainder gets 360.0 added, and that sum is rounded
float_mod_360(x) ==
    LET m == IF x >= 0 THEN x % CircleSub ELSE 0 - ((0 - x) % CircleSub)
    IN  IF m < 0 THEN nearest_float(m + CircleSub) ELSE m

\* normalize_deg on a binary64 argument, in sub-steps
normalize_deg_binary64(x) ==
    LET r == float_mod_360(x)
    IN  IF r < 0 THEN nearest_float(r + CircleSub) ELSE r

\* arguments: everything smaller than a grid unit, and grid values at both
\* ends of the circle up to two turns away
NormInputs ==
    ((1 - SubSteps)..(SubSteps - 1))
    \cup {(k * Circle + e) * SubSteps : k \in -2..2, e \in {-1, 0, 1, HALF_TURN}}

\* normalize_deg(x) and normalize_deg(normalize_deg(x)) for one argument
Normalize ==
    /\ route = "positions"
    /\ pc = "idle"
    /\ \E x \in NormInputs :
        norm' = [in |-> x,
                 out |-> normalize_deg_binary64(x),
                 again |-> normalize_deg_binary64(normalize_deg_binary64(x))]
    /\ pc' = "normalized"
    /\ UNCHANGED <<inputVars, eventVars, predictVars, natalVars, selVars, dashaVars, subs, queryVars, lon_in, star, subl>>

NextLon == Locate \/ Normalize

SpecLon == InitLon /\ [][NextLon]_vars

\* compute_vimshottari_dasha_for_birth alone; the function runs to
\* completion once called, so its steps are weakly fair
NextDasha == FirstMaha \/ RollForward \/ RollDone

LiveDasha == Init /\ [][NextDasha]_vars /\ WF_vars(NextDasha)

\* ------------------------------------------- natal chart and houses
\* d degrees on the grid
Deg(d) == (d * Circle) \div 360

\* widths of houses 1..6 in degrees (houses 7..12 repeat them, opposite
\* cusps being half a turn apart): equal houses and an unequal division
HouseWidths == {<<30, 30, 30, 30, 30, 30>>, <<20, 30, 40, 40, 30, 20>>}

Ascendants == {0, Deg(10), Deg(355) + 1}

\* the twelve cusps the ephemeris answers, in zodiacal order from house 1
RECURSIVE cusp_at(_, _, _)
cusp_at(asc, w, i) ==
    IF i = 1 THEN asc
    ELSE (cusp_at(asc, w, i - 1) + Deg(w[((i - 2) % 6) + 1])) % Circle

CuspLists == {[i \in 1..12 |-> cusp_at(asc, w, i)] : asc \in Ascendants, w \in HouseWidths}

\* the longitudes the ephemeris answers for the eight bodies it is asked
\* for, one chart per seed
BodyLons(seed) ==
    [p \in Lords \ {"ketu"} |->
        LET k == CHOOSE i \in 1..9 : PLANETS[i] = p
        IN  (Deg(41) * k * (seed + 1) + Deg(10) * seed + (k % 3) * 7) % Circle]

Ephemerides == {[lons |-> BodyLons(seed), cusps |-> c] : seed \in 0..MaxChart, c \in CuspLists}

Births ==
    {[utc_iso |-> u, instant |-> 0, latitude |-> la, longitude |-> lo] :
        u \in {"absent", "garbage", "valid"},
        la \in {"absent", "null", "number"},
        lo \in {"absent", "null", "number"}}

InitNatal ==
    /\ route = "compute_natal"
    /\ engine \in Engines
    /\ jd_ut = 0
    /\ birth \in Births
    /\ eph \in Ephemerides
    /\ moon_lon = eph.lons["moon"]
    /\ pc = "birth"
    /\ periods = <<>>
    /\ cur = 0
    /\ seq_idx = 0
    /\ subs = <<>>
    /\ asof_jd = 0
    /\ maha = None
    /\ resp = None
    /\ lon_in = 0
    /\ star = "ketu"
    /\ subl = [lord |-> "ketu", iter |-> 1]
    /\ norm = NoNorm
    /\ natal = None
    /\ eph_calls = 0
    /\ house = [lon |-> 0, num |-> 1]
    /\ sig = <<>>
    /\ SelectIdle
    /\ EventIdle
    /\ PredictIdle

\* natal = compute_natal(birth)
ComputeNatal ==
    /\ pc = "birth"
    /\ LET r == compute_natal(engine, birth, eph)
       IN  /\ natal' = IF r.ok THEN r.natal ELSE [error |-> r.error]
           /\ eph_calls' = r.calls
           /\ pc' = IF ~r.ok THEN "failed"
                  ELSE IF route \in DashaRoutes THEN "start" ELSE "natal"
    /\ UNCHANGED <<inputVars, eventVars, predictVars, birth, eph, house, sig, selVars, dashaVars, subs, queryVars, lonVars>>

\* longitudes worth placing: on, just before and just after every cusp, and
\* the middle of every house, also a turn away
HouseLons(cusps) ==
    UNION {{cusps[i] + d + k * Circle : d \in {-1, 0, 1}, k \in {-1, 0, 1}} : i \in 1..12}
    \cup {cusps[i] + _arc(cusps[i], cusps[(i % 12) + 1]) \div 2 : i \in 1..12}

\* house_num_of_lon(lon, natal.house_cusps_deg) for one longitude
HouseNumOfLon ==
    /\ pc = "natal"
    /\ route = "compute_natal"
    /\ engine = "engine"
    /\ \E l \in HouseLons(natal.house_cusps_deg) :
        house' = [lon |-> l, num |-> house_num_of_lon(l, natal.house_cusps_deg)]
    /\ pc' = "housed"
    /\ UNCHANGED <<inputVars, eventVars, predictVars, birth, eph, natal, eph_calls, sig, selVars, dashaVars, subs, queryVars, lonVars>>

\* planet_significators as main.py imports it: the engine's, or the
\* fallback `def planet_significators(n): return {}` beside the stub
main_planet_significators(eng, n) == IF eng = "engine" THEN planet_significators(n) ELSE <<>>

\* sig = planet_significators(natal)
PlanetSignificators ==
    /\ pc = "natal"
    /\ route = "compute_natal"
    /\ sig' = main_planet_significators(engine, natal)
    /\ pc' = "signified"
    /\ UNCHANGED <<inputVars, eventVars, predictVars, birth, eph, natal, eph_calls, house, selVars, dashaVars, subs, queryVars, lonVars>>

NextNatal == ComputeNatal \/ HouseNumOfLon \/ PlanetSignificators

SpecNatal == InitNatal /\ [][NextNatal]_vars

\* ------------------------------------------------ window selection
\* event_policies.py; focus weights in tenths, houses as numbers (the code
\* keys them by the decimal string of the number on both sides)
EVENT_POLICIES ==
    [marriage |-> [houses_pos |-> <<7, 2, 11>>, houses_neg |-> <<1, 6, 10>>,
                   focus_planets |-> [venus |-> 20, jupiter |-> 12, moon |-> 10],
                   age_min |-> 18, age_max |-> 70],
     child |-> [houses_pos |-> <<5, 2, 11, 9>>, houses_neg |-> <<1, 4, 10>>,
                focus_planets |-> [jupiter |-> 20, moon |-> 12, venus |-> 10],
                age_min |-> 18, age_max |-> 55],
     promotion |-> [houses_pos |-> <<10, 11, 2, 6>>, houses_neg |-> <<12, 8>>,
                    focus_planets |-> [saturn |-> 16, jupiter |-> 12, mercury |-> 10,
                                       sun |-> 8, mars |-> 6],
                    age_min |-> 20, age_max |-> 75],
     travel |-> [houses_pos |-> <<12, 9, 3>>, houses_neg |-> <<4, 2>>,
                 focus_planets |-> [rahu |-> 16, jupiter |-> 12, mercury |-> 10, moon |-> 8],
                 age_min |-> 5, age_max |-> 90]]

\* an unknown name resolved to the last policy instead of the default
policy_for_mut(question) ==
    IF question \in DOMAIN EVENT_POLICIES THEN EVENT_POLICIES[question]
    ELSE EVENT_POLICIES["travel"]

\* EVENT_POLICIES.get(question, EVENT_POLICIES["marriage"])
policy_for(question) ==
    IF question \in DOMAIN EVENT_POLICIES THEN EVENT_POLICIES[question]
    ELSE EVENT_POLICIES["marriage"]

\* (datetime.fromisoformat(iso) - dt_birth).days: whole days elapsed.  The
\* ISO text keeps microseconds, finer than the tick, so the instant read
\* back is the tick that was written
elapsed_days(dt_birth, jd) == (jd - dt_birth) \div DayTicks

\* _age_on(...) < years and _age_on(...) > years, with 365.2425 days a year
age_below(dt_birth, jd, years) == elapsed_days(dt_birth, jd) * 10000 < years * 3652425

\* the elapsed days compared with the years, the division by 365.2425 left out
age_above_mut(dt_birth, jd, years) == elapsed_days(dt_birth, jd) > years

age_above(dt_birth, jd, years) == elapsed_days(dt_birth, jd) * 10000 > years * 3652425

\* round(_age_on(...), 1), in tenths of a year
age_tenths(dt_birth, jd) == RoundDiv(elapsed_days(dt_birth, jd) * 4000, 146097)

\* sum(m.get(h, 0.0) for h in houses)
RECURSIVE sum_weights(_, _, _)
sum_weights(m, houses, i) ==
    IF i = 0 THEN 0
    ELSE sum_weights(m, houses, i - 1) + (IF houses[i] \in DOMAIN m THEN m[houses[i]] ELSE 0)

\* the focus term with half the weight on every focus planet dropped
_score_planet_for_event_mut(sig_map, lord, Hpos, Hneg, focus) ==
    LET l == Lower(lord)
        m == IF l \in DOMAIN sig_map THEN sig_map[l] ELSE <<>>
    IN  100 * sum_weights(m, Hpos, Len(Hpos)) - 80 * sum_weights(m, Hneg, Len(Hneg))

\* _score_planet_for_event, in hundredths
_score_planet_for_event(sig_map, lord, Hpos, Hneg, focus) ==
    LET l == Lower(lord)
        m == IF l \in DOMAIN sig_map THEN sig_map[l] ELSE <<>>
    IN  100 * sum_weights(m, Hpos, Len(Hpos)) - 80 * sum_weights(m, Hneg, Len(Hneg))
        + 5 * (IF l \in DOMAIN focus THEN focus[l] ELSE 0)

\* the (m, a, p) triplets of one antara: (m, a, None) if it has no pratyantara
triplets_of_antara(s, m, a) ==
    LET IsP(p) == /\ p.level = "pratyantara"
                  /\ p.parent = a.lord
                  /\ a.start_jd <= p.start_jd
                  /\ p.start_jd < a.end_jd
        P == SelectSeq(s, IsP)
    IN  IF P = <<>> THEN <<[maha |-> m, antara |-> a, praty |-> None]>>
        ELSE [i \in 1..Len(P) |-> [maha |-> m, antara |-> a, praty |-> P[i]]]

RECURSIVE triplets_of_antaras(_, _, _, _)
triplets_of_antaras(s, m, A, i) ==
    IF i > Len(A) THEN <<>>
    ELSE triplets_of_antara(s, m, A[i]) \o triplets_of_antaras(s, m, A, i + 1)

\* the triplets inside one maha
triplets_of_maha(s, m) ==
    LET IsA(a) == /\ a.level = "antara"
                  /\ a.parent = m.lord
                  /\ m.start_jd <= a.start_jd
                  /\ a.start_jd < m.end_jd
    IN  triplets_of_antaras(s, m, SelectSeq(s, IsA), 1)

RECURSIVE triplets_of_mahas(_, _, _)
triplets_of_mahas(s, M, i) ==
    IF i > Len(M) THEN <<>>
    ELSE triplets_of_maha(s, M[i]) \o triplets_of_mahas(s, M, i + 1)

\* the triplets loop of select_dba_windows over subs
triplets(s) == triplets_of_mahas(s, OfLevel(s, "maha"), 1)

\* win = P or A or M
window_of(t) ==
    IF t.praty # None THEN t.praty ELSE IF t.antara # None THEN t.antara ELSE t.maha

\* the age test turned into containment: a window has to lie inside the range
age_implausible_mut(dt_birth, win, pol) ==
    \/ age_below(dt_birth, win.start_jd, pol.age_min)
    \/ age_above(dt_birth, win.end_jd, pol.age_max)

\* (age_end < age_min) or (age_start > age_max)
age_implausible(dt_birth, win, pol) ==
    \/ age_below(dt_birth, win.end_jd, pol.age_min)
    \/ age_above(dt_birth, win.start_jd, pol.age_max)

\* the start of the window itself in place of its distance to the anchor
dist_mut(r, ajd) == window_of(r).start_jd

\* dist(r): abs(w["start_jd"] - ajd), the anchor being None or [jd |-> instant];
\* without an anchor the key is -score alone
dist(r, ajd) ==
    IF ajd = None THEN 0
    ELSE LET d == window_of(r).start_jd - ajd.jd IN IF d < 0 THEN 0 - d ELSE d

\* rows.sort(key=...) followed by rows[:n]: the sort is stable, so the head
\* is found by taking n times the first row with the least key among the
\* rows left
RECURSIVE sorted_head(_, _, _, _)
sorted_head(rs, ajd, left, n) ==
    IF n = 0 \/ left = {} THEN <<>>
    ELSE LET top == MinOf({0 - rs[i].score : i \in left})
             tied == {i \in left : 0 - rs[i].score = top}
             near == MinOf({dist(rs[i], ajd) : i \in tied})
             best == MinOf({i \in tied : dist(rs[i], ajd) = near})
         IN  <<rs[best]>> \o sorted_head(rs, ajd, left \ {best}, n - 1)

\* select_dba_windows(natal, dasha_ctx, question, direction, anchor_iso);
\* scores in thousandths (round(score, 3) keeps them), ages in tenths;
\* kept is the list rows before the sort, rows the list returned
select_dba_windows(eng, nat, ps, question, direction, ajd) ==
    LET pol == policy_for(question)
        Hpos == pol.houses_pos
        Hneg == pol.houses_neg
        focus == pol.focus_planets
        sig_map == main_planet_significators(eng, nat)
        s == subdivide_vimshottari(eng, ps, 3).out
        lord_score == [l \in Lords |-> _score_planet_for_event(sig_map, l, Hpos, Hneg, focus)]
        Plausible(t) == ~age_implausible(nat.utc_birth_dt, window_of(t), pol)
        cand == SelectSeq(triplets(s), Plausible)
        row(t) ==
            LET win == window_of(t)
                sM == lord_score[t.maha.lord]
                sA == IF t.antara # None THEN lord_score[t.antara.lord] ELSE 0
                sP == IF t.praty # None THEN lord_score[t.praty.lord] ELSE 0
            IN  [score |-> 3 * sM + 6 * sA + 10 * sP + (IF t.praty # None THEN 200 ELSE 0),
                 maha |-> t.maha, antara |-> t.antara, praty |-> t.praty,
                 age_range |-> <<age_tenths(nat.utc_birth_dt, win.start_jd),
                                 age_tenths(nat.utc_birth_dt, win.end_jd)>>]
        all == [i \in 1..Len(cand) |-> row(cand[i])]
    IN  [kept |-> all, rows |-> sorted_head(all, ajd, 1..Len(all), 12)]

\* -------------------------------------- select_dba_windows as called
Questions == {"marriage", "child", "promotion", "travel", "career"}

Directions == {"future", "past", "nearest"}

\* anchors: none, and thirty years after the birth
Anchors(dt_birth) == {None, [jd |-> dt_birth + 30 * YearTicks]}

\* the charts the selection is tried on: two seeds, and one whose Moon is
\* one grid step before the end of Bharani, so that the truncated first
\* maha is shorter than the early-exit tolerance of the subdivision
SelectEphemerides ==
    {[lons |-> l, cusps |-> [i \in 1..12 |-> cusp_at(Deg(10), <<20, 30, 40, 40, 30, 20>>, i)]] :
        l \in {BodyLons(0), BodyLons(MaxChart), [BodyLons(0) EXCEPT !["moon"] = 2 * SegUnits - 1]}}

InitSelect ==
    /\ route = "select_dba_windows"
    /\ engine \in Engines
    /\ jd_ut = 0
    /\ birth = [utc_iso |-> "valid", instant |-> jd_ut, latitude |-> "number", longitude |-> "number"]
    /\ eph \in SelectEphemerides
    /\ moon_lon = IF engine = "engine" THEN eph.lons["moon"] ELSE 0
    /\ pc = "birth"
    /\ periods = <<>>
    /\ cur = 0
    /\ seq_idx = 0
    /\ subs = <<>>
    /\ asof_jd = 0
    /\ maha = None
    /\ resp = None
    /\ lon_in = 0
    /\ star = "ketu"
    /\ subl = [lord |-> "ketu", iter |-> 1]
    /\ norm = NoNorm
    /\ natal = None
    /\ eph_calls = 0
    /\ house = [lon |-> 0, num |-> 1]
    /\ sig = <<>>
    /\ SelectIdle
    /\ EventIdle
    /\ PredictIdle

\* the anchor half-way between the starts of the first two neighbours of
\* an unanchored answer that have the same score, if they have one on the
\* grid: an anchor the same distance from two windows
TieAnchors(head) ==
    LET Tied(i) == /\ head[i].score = head[i + 1].score
                   /\ window_of(head[i]).start_jd < window_of(head[i + 1]).start_jd
                   /\ (window_of(head[i]).start_jd + window_of(head[i + 1]).start_jd) % 2 = 0
        ties == {i \in 1..(Len(head) - 1) : Tied(i)}
    IN  IF ties = {} THEN {}
        ELSE LET i == MinOf(ties)
             IN  {[jd |-> (window_of(head[i]).start_jd + window_of(head[i + 1]).start_jd) \div 2]}

\* rows = select_dba_windows(natal, dasha, question, direction, anchor_iso)
SelectDbaWindows ==
    /\ pc = "built"
    /\ route = "select_dba_windows"
    /\ \E q \in Questions, d \in Directions :
       \E plain \in {select_dba_windows(engine, natal, periods, q, d, None)} :
       \E a \in Anchors(natal.utc_birth_dt) \cup TieAnchors(plain.rows) :
       \E r \in {select_dba_windows(engine, natal, periods, q, d, a)} :
            /\ query' = [question |-> q, direction |-> d, anchor |-> a]
            /\ kept' = r.kept
            /\ rows' = r.rows
    /\ pc' = "selected"
    /\ UNCHANGED <<inputVars, eventVars, predictVars, natalVars, dashaVars, subs, queryVars, lonVars>>

NextSelect == ComputeNatal \/ FirstMaha \/ RollForward \/ RollDone \/ SelectDbaWindows

SpecSelect == InitSelect /\ [][NextSelect]_vars

\* --------------------------------------------------- predict_event
\* AGE_MIN of main.py, in years
AGE_MIN == [marriage |-> 18, child |-> 20, promotion |-> 21, travel |-> 12]

\* AGE_MIN.get(b.question, 16.0)
min_age_for(question) == IF question \in DOMAIN AGE_MIN THEN AGE_MIN[question] ELSE 16

\* age_years_at_jd(birth_jd, jd) >= min_age, a year being 365.2425 days
age_floor_met(birth_jd, jd, min_age) == jd - birth_jd >= min_age * YearTicks

\* TARGETS of score_subperiod: (positive houses, negative houses)
TARGETS ==
    [marriage |-> [pos |-> <<7, 2, 11>>, neg |-> <<1, 6, 10>>],
     child |-> [pos |-> <<5, 2, 11, 9>>, neg |-> <<1, 4, 10>>],
     promotion |-> [pos |-> <<10, 11, 2, 6>>, neg |-> <<12, 8>>],
     travel |-> [pos |-> <<12, 9, 3>>, neg |-> <<4, 2>>]]

\* TARGETS.get(question.lower(), (["7","2","11"], ["1","6","10"]))
targets_for(question) ==
    IF question \in DOMAIN TARGETS THEN TARGETS[question]
    ELSE [pos |-> <<7, 2, 11>>, neg |-> <<1, 6, 10>>]

\* planet_score(pl, k) of score_subperiod in hundredths, k in tenths:
\* k * (pos_s - 0.8 * neg_s)
planet_score(sig_map, pl, k, tg) ==
    LET m == IF pl \in DOMAIN sig_map THEN sig_map[pl] ELSE <<>>
    IN  k * (10 * sum_weights(m, tg.pos, Len(tg.pos)) - 8 * sum_weights(m, tg.neg, Len(tg.neg)))

\* the edge for deeper periods, in hundredths
level_edge(level) ==
    IF level = "pratyantara" THEN 25 ELSE IF level = "antara" THEN 12 ELSE 0

\* score_subperiod with the significator map already read, in hundredths;
\* the parent is None on a maha and a lord on every other block
subperiod_score(sig_map, sub, question) ==
    LET tg == targets_for(question)
    IN  planet_score(sig_map, sub.lord, 10, tg)
        + (IF sub.level # "maha" THEN planet_score(sig_map, sub.parent, 4, tg) ELSE 0)
        + level_edge(sub.level)

\* score_subperiod(natal, sub, question)
score_subperiod(eng, nat, sub, question) ==
    subperiod_score(main_planet_significators(eng, nat), sub, question)

\* the direction filter with the tests of both sides exchanged
in_direction_mut(direction, s, ajd) ==
    IF direction = "future" THEN s.start_jd > ajd
    ELSE IF direction = "past" THEN s.end_jd <= ajd
    ELSE TRUE

\* s["end_iso"] > anchor_iso for 'future', s["start_iso"] <= anchor_iso for
\* 'past', everything otherwise; texts of one format and offset compare as
\* their instants do
in_direction(direction, s, ajd) ==
    IF direction = "future" THEN s.end_jd > ajd
    ELSE IF direction = "past" THEN s.start_jd <= ajd
    ELSE TRUE

\* the pool of predict_event: direction and age floor, then the last resort
\* `[s for s in subs if (direction != "future" or end_iso > anchor_iso)]`,
\* then subs
event_pool(s, birth_jd, question, direction, ajd) ==
    LET Strict(x) == /\ in_direction(direction, x, ajd)
                     /\ age_floor_met(birth_jd, x.start_jd, min_age_for(question))
        Resort(x) == direction # "future" \/ x.end_jd > ajd
        p0 == SelectSeq(s, Strict)
        p1 == SelectSeq(s, Resort)
    IN  IF p0 # <<>> THEN p0 ELSE IF p1 # <<>> THEN p1 ELSE s

\* days_from_anchor(sub)
days_from_anchor(sub, ajd) ==
    LET d == sub.start_jd - ajd IN IF d < 0 THEN 0 - d ELSE d

\* how many windows of the ranking are kept in the state: the code reads
\* ranked[0] and the windows scored as ranked[0]
RankHead == 12

\* the first n windows of sorted(pool, key=(-score, days_from_anchor,
\* start_jd)), as indices into the pool; sorted is stable, so among equal
\* keys the earlier index comes first
RECURSIVE ranked_head(_, _, _, _, _)
ranked_head(pl, sc, ajd, left, n) ==
    IF n = 0 \/ left = {} THEN <<>>
    ELSE LET top == MinOf({0 - sc[i] : i \in left})
             tied == {i \in left : 0 - sc[i] = top}
             near == MinOf({days_from_anchor(pl[i], ajd) : i \in tied})
             close == {i \in tied : days_from_anchor(pl[i], ajd) = near}
             first == MinOf({pl[i].start_jd : i \in close})
             best == MinOf({i \in close : pl[i].start_jd = first})
         IN  <<best>> \o ranked_head(pl, sc, ajd, left \ {best}, n - 1)

\* max(close, key=start_jd): the first of the latest-starting elements
latest_first(close) ==
    LET top == CHOOSE t \in {close[i].start_jd : i \in 1..Len(close)} :
                   \A i \in 1..Len(close) : close[i].start_jd <= t
    IN  close[MinOf({i \in 1..Len(close) : close[i].start_jd = top})]

\* the window taken from the head of the ranking whatever the direction
choose_window_mut(pl, sc, head, direction) == pl[head]

\* chosen: for 'past' max(close, key=start_jd), close being the windows
\* scored as ranked[0] (within 1e-6, which on exact scores is equality);
\* the latest-starting windows of close share their whole key, so the
\* stable sort leaves them in the order of the pool and the first of them
\* in ranked is the first of them in the pool.  Otherwise ranked[0]
choose_window(pl, sc, head, direction) ==
    IF direction = "past"
    THEN LET top_score == sc[head]
             idx == [i \in 1..Len(pl) |-> i]
             Close(i) == sc[i] = top_score
             close == SelectSeq(idx, Close)
         IN  latest_first([k \in 1..Len(close) |-> pl[close[k]]])
    ELSE pl[head]

\* the score of every window of the pool, in hundredths, as a tuple
pool_scores(sig_map, pl, question) ==
    <<>> \o [i \in 1..Len(pl) |-> subperiod_score(sig_map, pl[i], question)]

\* the response of predict_event; instants stand for their ISO texts
event_response(question, ch) ==
    [question |-> question,
     window_start |-> ch.start_jd,
     window_end |-> ch.end_jd,
     level |-> ch.level,
     dasha_lord |-> Title[ch.lord]]

\* -------------------------------------------- predict_event as called
EventQuestions == {"marriage", "travel", "career"}

\* anchor instants in years after the birth: before every age floor, in
\* mid-life, late in life, and after the end of the ladder.  A request
\* without anchor_iso takes the clock's now, which is one more instant
EventAnchorYears == {10, 30, 60, 130}

\* the anchors tried: those years after the birth, and the last tick of the
\* ladder
EventAnchors(birth_jd, ps) ==
    {birth_jd + y * YearTicks : y \in EventAnchorYears} \cup {ps[Len(ps)].end_jd - 1}

\* the two window selectors: predict_event, and select_dba_windows as
\* predict_event_kp calls it
InitEvent ==
    /\ route \in {"predict_event", "select_dba_windows"}
    /\ engine \in Engines
    /\ jd_ut = 0
    /\ birth = [utc_iso |-> "valid", instant |-> jd_ut, latitude |-> "number", longitude |-> "number"]
    /\ eph \in SelectEphemerides
    /\ moon_lon = IF engine = "engine" THEN eph.lons["moon"] ELSE 0
    /\ pc = "birth"
    /\ periods = <<>>
    /\ cur = 0
    /\ seq_idx = 0
    /\ subs = <<>>
    /\ asof_jd = 0
    /\ maha = None
    /\ resp = None
    /\ lon_in = 0
    /\ star = "ketu"
    /\ subl = [lord |-> "ketu", iter |-> 1]
    /\ norm = NoNorm
    /\ natal = None
    /\ eph_calls = 0
    /\ house = [lon |-> 0, num |-> 1]
    /\ sig = <<>>
    /\ SelectIdle
    /\ EventIdle
    /\ PredictIdle

\* predict_event from the direction filter to the response; every local
\* of the handler is bound once, in the order the handler computes them
PredictEvent ==
    /\ pc = "subdivided"
    /\ route = "predict_event"
    /\ natal # None
    /\ \E q \in EventQuestions, d \in Directions, anchor_jd \in EventAnchors(jd_ut, periods) :
       \E sig_map \in {main_planet_significators(engine, natal)} :
       \E pl \in {event_pool(subs, jd_ut, q, d, anchor_jd)} :
       \E sc \in {pool_scores(sig_map, pl, q)} :
       \E rk \in {ranked_head(pl, sc, anchor_jd, 1..Len(pl), RankHead)} :
       \E ch \in {choose_window(pl, sc, rk[1], d)} :
            /\ query' = [question |-> q, direction |-> d, anchor |-> [jd |-> anchor_jd]]
            /\ pool' = pl
            /\ ranked' = [k \in 1..Len(rk) |-> pl[rk[k]]]
            /\ chosen' = ch
            /\ resp' = event_response(q, ch)
    /\ pc' = "chosen"
    /\ UNCHANGED <<inputVars, predictVars, natalVars, dashaVars, subs, kept, rows,
                   asof_jd, maha, lonVars>>

NextEvent ==
    \/ ComputeNatal
    \/ FirstMaha
    \/ RollForward
    \/ RollDone
    \/ Subdivide
    \/ PredictEvent
    \/ SelectDbaWindows

SpecEvent == InitEvent /\ [][NextEvent]_vars

\* ------------------------------------------------ /api/v1/predict
\* how many rules the library holds, and the requests served in parallel
MaxRules == 2

Requests == {1, 2}

\* triggers current_transits reports; the library has one rule on each of
\* the first MaxRules of them
TRIGGERS == <<"venus_transit_7th", "saturn_in_10th", "jupiter_aspecting_10th_lord">>

\* Rule of rules.py: date_from and date_to default to None
Rule(k) == [id |-> k, trigger |-> TRIGGERS[((k - 1) % 3) + 1], date_from |-> None, date_to |-> None]

\* rule_lib = RuleLibrary.load_default(), once, at import
load_default == [k \in 1..MaxRules |-> Rule(k)]

\* the births of the requests: a day and half a nakshatra apart
request_birth(t) ==
    [jd |-> jd_ut + (t - 1) * DayTicks,
     moon |-> (moon_lon + (t - 1) * (SegUnits \div 2)) % Circle]

\* dasha.window_from and dasha.window_to: the first maha of the request's
\* own birth; an instant stands for its ISO text
dasha_window(eng, b) ==
    LET nf == moon_nakshatra_fraction(eng, b.jd, b.moon)
        lord == first_lord(nf)
    IN  [from |-> [jd |-> b.jd], to |-> [jd |-> b.jd + remaining_ticks(lord, nf)]]

\* a request before its handler runs
NewRequest ==
    [pc |-> "start", window |-> None, active |-> {}, i |-> 1, fallback |-> FALSE,
     fired |-> <<>>, phrased |-> <<>>, key_dates |-> None]

InitPredict ==
    /\ route = "predict"
    /\ engine \in Engines
    /\ jd_ut = 0
    /\ moon_lon \in {0, SegUnits \div 2}
    /\ pc = "serving"
    /\ periods = <<>>
    /\ cur = 0
    /\ seq_idx = 0
    /\ subs = <<>>
    /\ asof_jd = 0
    /\ maha = None
    /\ resp = None
    /\ lon_in = 0
    /\ star = "ketu"
    /\ subl = [lord |-> "ketu", iter |-> 1]
    /\ norm = NoNorm
    /\ NatalIdle
    /\ SelectIdle
    /\ EventIdle
    /\ rule_lib = load_default
    /\ reqs = [t \in Requests |-> NewRequest]

\* natal, dasha and transits of one request: its own window, and the
\* triggers current_transits finds active at the time of the request
PredictBegin(t) ==
    /\ reqs[t].pc = "start"
    /\ \E act \in SUBSET {rule_lib[k].trigger : k \in 1..Len(rule_lib)} :
        reqs' = [reqs EXCEPT ![t].pc = "loop",
                             ![t].window = dasha_window(engine, request_birth(t)),
                             ![t].active = act]
    /\ UNCHANGED <<inputVars, eventVars, rule_lib, natalVars, selVars, dashaVars, subs,
                   queryVars, lonVars, pc>>

\* for r in rule_lib.rules: if transits.active.get(r.trigger, False);
\* after the loop, `if not fired and rule_lib.rules` takes rules[0]
PredictLoop(t) ==
    /\ reqs[t].pc = "loop"
    /\ LET i == reqs[t].i
       IN  IF i <= Len(rule_lib)
           THEN IF rule_lib[i].trigger \in reqs[t].active
                THEN reqs' = [reqs EXCEPT ![t].pc = "date_from"]
                ELSE reqs' = [reqs EXCEPT ![t].i = i + 1]
           ELSE IF reqs[t].fired = <<>> /\ Len(rule_lib) > 0
                THEN reqs' = [reqs EXCEPT ![t].pc = "date_from", ![t].i = 1,
                                          ![t].fallback = TRUE]
                ELSE reqs' = [reqs EXCEPT ![t].pc = "phrase", ![t].i = 1]
    /\ UNCHANGED <<inputVars, eventVars, rule_lib, natalVars, selVars, dashaVars, subs,
                   queryVars, lonVars, pc>>

\* r.date_from = dasha.window_from, on the rule object of the library
PredictDateFrom(t) ==
    /\ reqs[t].pc = "date_from"
    /\ rule_lib' = [rule_lib EXCEPT ![reqs[t].i].date_from = reqs[t].window.from]
    /\ reqs' = [reqs EXCEPT ![t].pc = "date_to"]
    /\ UNCHANGED <<inputVars, eventVars, natalVars, selVars, dashaVars, subs,
                   queryVars, lonVars, pc>>

\* r.date_to = dasha.window_to; fired.append(r)
PredictDateTo(t) ==
    /\ reqs[t].pc = "date_to"
    /\ rule_lib' = [rule_lib EXCEPT ![reqs[t].i].date_to = reqs[t].window.to]
    /\ reqs' = [reqs EXCEPT ![t].fired = Append(@, reqs[t].i),
                            ![t].i = IF reqs[t].fallback THEN 1 ELSE @ + 1,
                            ![t].pc = IF reqs[t].fallback THEN "phrase" ELSE "loop"]
    /\ UNCHANGED <<inputVars, eventVars, natalVars, selVars, dashaVars, subs,
                   queryVars, lonVars, pc>>

\* phrase_prediction(r, ...) for the next fired rule: {from} and {to} of the
\* message are replaced by rule.date_from and rule.date_to
PredictPhrase(t) ==
    /\ reqs[t].pc = "phrase"
    /\ LET i == reqs[t].i
       IN  IF i <= Len(reqs[t].fired)
           THEN LET r == rule_lib[reqs[t].fired[i]]
                IN  reqs' = [reqs EXCEPT
                        ![t].phrased = Append(@, [id |-> r.id, from |-> r.date_from, to |-> r.date_to]),
                        ![t].i = i + 1]
           ELSE reqs' = [reqs EXCEPT ![t].pc = "key_dates"]
    /\ UNCHANGED <<inputVars, eventVars, rule_lib, natalVars, selVars, dashaVars, subs,
                   queryVars, lonVars, pc>>

\* key_dates = [{"from": r.date_from, "to": r.date_to, ...} for r in fired]
\* and the response
PredictRespond(t) ==
    /\ reqs[t].pc = "key_dates"
    /\ reqs' = [reqs EXCEPT
            ![t].key_dates = [k \in 1..Len(reqs[t].fired) |->
                                [from |-> rule_lib[reqs[t].fired[k]].date_from,
                                 to |-> rule_lib[reqs[t].fired[k]].date_to]],
            ![t].pc = "done"]
    /\ UNCHANGED <<inputVars, eventVars, rule_lib, natalVars, selVars, dashaVars, subs,
                   queryVars, lonVars, pc>>

\* the handlers run on worker threads, one step of one request at a time
NextPredict ==
    \E t \in Requests :
        \/ PredictBegin(t)
        \/ PredictLoop(t)
        \/ PredictDateFrom(t)
        \/ PredictDateTo(t)
        \/ PredictPhrase(t)
        \/ PredictRespond(t)

SpecPredict == InitPredict /\ [][NextPredict]_vars

\* ------------------------------------------- reading a subdivision
\* number of consecutive records from index b on (at most 9) satisfying Q
RunLen(s, b, Q(_)) ==
    Cardinality({j \in 1..9 : /\ b + j - 1 <= Len(s)
                              /\ \A k \in 0..(j - 1) : Q(s[b + k])})

\* the runs of pratyantaras emitted for the antaras of one maha, in order
RECURSIVE PratyRuns(_, _, _)
PratyRuns(s, b, n) ==
    IF n = 0 \/ b > Len(s) THEN <<>>
    ELSE IF s[b].level # "pratyantara" THEN <<>>
    ELSE LET SameRun(x) == x.level = "pratyantara" /\ x.parent = s[b].parent
             len == RunLen(s, b, SameRun)
         IN  <<[k \in 1..len |-> s[b + k - 1]]>> \o PratyRuns(s, b + len, n - 1)

\* every parent of s with the children emitted for it
Families(s) ==
    LET IsAntara(x) == x.level = "antara"
        OfMaha(i) ==
            LET nA == RunLen(s, i + 1, IsAntara)
                runs == PratyRuns(s, i + nA + 1, nA)
            IN  {[parent |-> s[i], kids |-> [k \in 1..nA |-> s[i + k]]]}
                \cup {[parent |-> s[i + k],
                       kids |-> IF k <= Len(runs) THEN runs[k] ELSE <<>>] : k \in 1..nA}
    IN  UNION {OfMaha(i) : i \in {j \in 1..Len(s) : s[j].level = "maha"}}

Contiguous(kids) == \A j \in 1..(Len(kids) - 1) : kids[j].end_jd = kids[j + 1].start_jd

RECURSIVE SumLen(_, _)
SumLen(kids, j) == IF j = 0 THEN 0 ELSE (kids[j].end_jd - kids[j].start_jd) + SumLen(kids, j - 1)

Tiles(f) ==
    /\ Len(f.kids) >= 1
    /\ f.kids[1].start_jd = f.parent.start_jd
    /\ Contiguous(f.kids)
    /\ f.kids[Len(f.kids)].end_jd = f.parent.end_jd
    /\ SumLen(f.kids, Len(f.kids)) = f.parent.end_jd - f.parent.start_jd

\* the children follow the cyclic order starting at the parent's own lord
RotatedFromParent(f) ==
    /\ Len(f.kids) >= 1
    /\ \A j \in 1..Len(f.kids) :
        /\ f.kids[j].lord = VimAt((VimIndex(f.parent.lord) + j - 1) % 9)
        /\ f.kids[j].parent = f.parent.lord

\* ------------------------------------------------------------ claims
\* C1: in the output of engine.subdivide_vimshottari every parent (maha and
\* antara) is tiled by its children: the first child starts at the parent's
\* start, children are contiguous, the last child ends exactly at the
\* parent's end, and the durations sum to the parent's duration.
C1_ChildrenTileParent ==
    (pc = "subdivided" /\ engine = "engine") => \A f \in Families(subs) : Tiles(f)

\* C2: in the output of engine.subdivide_vimshottari the antaras of a maha
\* with lord X start with X and follow the cyclic order, and the
\* pratyantaras of an antara with lord Y start with Y and follow the cyclic
\* order.
C2_RotationRealEngine ==
    (pc = "subdivided" /\ engine = "engine") => \A f \in Families(subs) : RotatedFromParent(f)

C2_Witness ==
    /\ pc = "subdivided"
    /\ engine = "engine"
    /\ \E f \in Families(subs) :
        /\ f.parent.level = "antara"
        /\ f.parent.parent # f.parent.lord
        /\ Len(f.kids) = 9
        /\ f.kids[1].lord = f.parent.lord

\* C3: in the output of engine_stub.subdivide_vimshottari the antaras of a
\* maha with lord X start with X, and the pratyantaras of an antara with
\* lord Y start with Y.
C3_RotationStubEngine ==
    (pc = "subdivided" /\ engine = "engine_stub") =>
        \A f \in Families(subs) : Len(f.kids) >= 1 /\ f.kids[1].lord = f.parent.lord

\* the 27-way segment containing the Moon, and the Moon's offset inside it
MoonSegment == CHOOSE n \in 0..(NakCount - 1) : n * SegUnits <= moon_lon /\ moon_lon < (n + 1) * SegUnits

MoonOffset == moon_lon - MoonSegment * SegUnits

Abs(x) == IF x < 0 THEN -x ELSE x

PeriodLen(p) == p.end_jd - p.start_jd

C5_RollForwardFullWeight ==
    \A i \in 2..Len(periods) :
        /\ VimIndex(Lower(periods[i].planet)) = (VimIndex(Lower(periods[i - 1].planet)) + 1) % 9
        /\ PeriodLen(periods[i]) = VIM_DURATIONS_YEARS[Lower(periods[i].planet)] * YearTicks
        /\ periods[i].start_jd = periods[i - 1].end_jd

C5_Witness == pc = "built" /\ Len(periods) >= 10 /\ periods[1].planet = periods[10].planet

Horizon == jd_ut + VIM_TOTAL_YEARS * YearTicks

Rolled == pc \notin {"start", "roll", "idle"}

\* C6: the roll-forward loop terminates, and the periods it returns reach
\* birth + 120 years, leaving no instant of [birth, birth + 120 years)
\* outside every period.
C6_TerminatesAndCovers ==
    /\ <>Rolled
    /\ [](Rolled =>
            /\ periods[Len(periods)].end_jd >= Horizon
            /\ \A t \in {periods[i].end_jd : i \in 1..Len(periods)} \cup {jd_ut, Horizon - 1} :
                (jd_ut <= t /\ t < Horizon) =>
                    \E i \in 1..Len(periods) : periods[i].start_jd <= t /\ t < periods[i].end_jd)

C6_Witness == pc = "built" /\ Len(periods) = 11

InHorizon(t) == Len(periods) >= 1 /\ periods[1].start_jd <= t /\ t < periods[Len(periods)].end_jd

\* C7: the top-level containment query is half-open: an instant inside the
\* horizon lies in exactly one period, which is the one found, and an
\* instant equal to a boundary belongs to the period starting there, never
\* to the one ending there.
C7_HalfOpenContainment ==
    (pc = "answered" /\ InHorizon(asof_jd)) =>
        /\ Cardinality({i \in 1..Len(periods) :
                periods[i].start_jd <= asof_jd /\ asof_jd < periods[i].end_jd}) = 1
        /\ maha # None
        /\ maha.start_jd <= asof_jd
        /\ asof_jd < maha.end_jd
        /\ \A i \in 1..Len(periods) :
            /\ (periods[i].start_jd = asof_jd /\ PeriodLen(periods[i]) > 0) =>
                    (maha.start_jd = asof_jd /\ maha.lord = Lower(periods[i].planet))
            /\ periods[i].end_jd = asof_jd => maha.end_jd # asof_jd

C7_Witness ==
    /\ pc = "answered"
    /\ maha # None
    /\ \E i \in 2..Len(periods) :
        /\ periods[i].start_jd = asof_jd
        /\ periods[i - 1].end_jd = asof_jd
        /\ PeriodLen(periods[i - 1]) > 0
        /\ maha.lord = Lower(periods[i].planet)

\* C8: for an as-of instant inside the horizon debug_dba_active answers with
\* one maha, one antara and one pratyantara, each containing the instant in
\* its half-open interval, and not with an error.
C8_ActiveTripleReturned ==
    (pc = "answered" /\ InHorizon(asof_jd)) =>
        /\ "error" \notin DOMAIN resp
        /\ \A k \in {"maha", "antara", "pratyantara"} :
            /\ resp[k] # None
            /\ resp[k].start_jd <= asof_jd
            /\ asof_jd < resp[k].end_jd

\* the located longitude brought into one turn of the circle, its segment
\* and its offset in the segment, found without dividing
LonTurn == CHOOSE k \in -2..2 : 0 <= lon_in + k * Circle /\ lon_in + k * Circle < Circle

LonCanon == lon_in + LonTurn * Circle

LonSegment == CHOOSE n \in 0..(NakCount - 1) : n * SegUnits <= LonCanon /\ LonCanon < (n + 1) * SegUnits

LonOffset == LonCanon - LonSegment * SegUnits

C11_SubSpansHalfOpen ==
    pc = "located" =>
        LET seq == [i \in 1..9 |-> VIM_SEQUENCE[((LonSegment + i - 1) % 9) + 1]]
        IN  \A k \in 1..8 :
                LonOffset * VIM_TOTAL_YEARS = CumWeight(seq, k) * SegUnits
                    => subl.lord = seq[k + 1]

\* the cusps of the chart and the placed longitude brought into the circle
Cusp(k) == natal.house_cusps_deg[((k - 1) % 12) + 1]

HouseLon == normalize_deg(house.lon)

\* C12: for 12 cusps in zodiacal order house_num_of_lon puts every
\* longitude in exactly one house in 1..12, the one whose forward arc from
\* its cusp to the next cusp holds it; a longitude exactly on a cusp goes
\* to the earlier of the two houses meeting there, for each of the 12
\* cusps, cusp 1 (shared by house 12 and house 1) included.
C12_HouseByForwardArc ==
    pc = "housed" =>
        /\ house.num \in 1..12
        /\ _arc(Cusp(house.num), HouseLon) <= _arc(Cusp(house.num), Cusp(house.num + 1))
        /\ \A h \in 1..12 :
            (0 < _arc(Cusp(h), HouseLon) /\ _arc(Cusp(h), HouseLon) < _arc(Cusp(h), Cusp(h + 1)))
                => house.num = h
        /\ \A k \in 1..12 : HouseLon = Cusp(k) => house.num = ((k + 10) % 12) + 1

\* the same with cusp 1 left out of the tie rule
HouseTiesOnCusps2To12 ==
    pc = "housed" =>
        /\ house.num \in 1..12
        /\ _arc(Cusp(house.num), HouseLon) <= _arc(Cusp(house.num), Cusp(house.num + 1))
        /\ \A h \in 1..12 :
            (0 < _arc(Cusp(h), HouseLon) /\ _arc(Cusp(h), HouseLon) < _arc(Cusp(h), Cusp(h + 1)))
                => house.num = h
        /\ \A k \in 2..12 : HouseLon = Cusp(k) => house.num = k - 1
        /\ HouseLon = Cusp(1) => house.num = 1

\* reading a chart: where a lord is placed, what it owns, and the lords a
\* body depends on
OneIf(x) == IF x THEN 1 ELSE 0

PlacedIn(lord, h) == house_num_of_lon(natal.planet_longitudes[lord], natal.house_cusps_deg) = h

Owns(lord, h) == RULERS[natal.house_map[h]] = lord

StarLordOf(p) == VIM_SEQUENCE[(nak_index(natal.planet_longitudes[p]) % 9) + 1]

SignLordOf(p) == RULERS[sign_from_longitude(natal.planet_longitudes[p])]

Weight(p, h) == IF h \in DOMAIN sig[p] THEN sig[p][h] ELSE 0

\* C13 as stated: for every body P the significator map gives house h
\* exactly 3*[h is the placement house or an owned house of P's star-lord]
\* + 2*[the same of P] + 1*[the same of P's sign-lord], and houses that
\* qualify for none are absent.
C13_SignificatorWeights ==
    (pc = "signified" /\ engine = "engine") =>
        /\ DOMAIN sig = Lords
        /\ \A p \in Lords, h \in 1..12 :
            /\ Weight(p, h) =
                  3 * OneIf(PlacedIn(StarLordOf(p), h) \/ Owns(StarLordOf(p), h))
                + 2 * OneIf(PlacedIn(p, h) \/ Owns(p, h))
                + 1 * OneIf(PlacedIn(SignLordOf(p), h) \/ Owns(SignLordOf(p), h))
            /\ h \in DOMAIN sig[p] <=> Weight(p, h) > 0

\* C13 amended: each of the three lords contributes its coefficient once
\* for its placement house and once more for each house it owns, so a house
\* a lord both sits in and owns counts twice for that lord: the weight of h
\* is 3*([placed] + [owned]) of the star-lord + 2*([placed] + [owned]) of P
\* + 1*([placed] + [owned]) of the sign-lord, and houses with weight 0 are
\* absent.
C13_SignificatorWeightsCounted ==
    (pc = "signified" /\ engine = "engine") =>
        /\ DOMAIN sig = Lords
        /\ \A p \in Lords, h \in 1..12 :
            /\ Weight(p, h) =
                  3 * (OneIf(PlacedIn(StarLordOf(p), h)) + OneIf(Owns(StarLordOf(p), h)))
                + 2 * (OneIf(PlacedIn(p, h)) + OneIf(Owns(p, h)))
                + 1 * (OneIf(PlacedIn(SignLordOf(p), h)) + OneIf(Owns(SignLordOf(p), h)))
            /\ h \in DOMAIN sig[p] <=> Weight(p, h) > 0

C13_Witness ==
    /\ pc = "signified"
    /\ engine = "engine"
    /\ \E p \in Lords, h \in 1..12 :
        /\ PlacedIn(p, h)
        /\ Owns(p, h)
        /\ StarLordOf(p) # p
        /\ Weight(p, h) >= 4
    /\ \E p \in Lords, h \in 1..12 : h \notin DOMAIN sig[p]

\* C14: for every longitude L, negative values and multiples of 360
\* included, normalize_deg(L) lies in [0, 360) and
\* normalize_deg(normalize_deg(L)) = normalize_deg(L).
C14_NormalizeRangeIdempotent ==
    pc = "normalized" =>
        /\ 0 <= norm.out
        /\ norm.out < CircleSub
        /\ norm.again = norm.out

\* on grid arguments the binary64 reading agrees with normalize_deg
NormalizeAgreesOnGrid ==
    (pc = "normalized" /\ norm.in % SubSteps = 0) =>
        norm.out = normalize_deg(norm.in \div SubSteps) * SubSteps

\* birth data compute_natal has to refuse
BadBirth ==
    \/ birth.utc_iso \in {"absent", "garbage"}
    \/ birth.latitude \in {"absent", "null"}
    \/ birth.longitude \in {"absent", "null"}

\* C15: whenever the birth instant is missing or unparseable, or the
\* latitude or longitude is absent (attribute missing or null),
\* compute_natal fails with the input-validation error before it asks the
\* ephemeris for any longitude or cusp, and returns no NatalContext.
C15_RejectsBadInput ==
    (pc # "birth" /\ BadBirth) =>
        /\ natal = [error |-> "ValueError"]
        /\ eph_calls = 0

\* what does hold: a missing instant, an unparseable instant and a missing
\* coordinate attribute are refused with ValueError before any request
MissingFieldsRefused ==
    (/\ pc # "birth"
     /\ \/ birth.utc_iso \in {"absent", "garbage"}
        \/ birth.latitude = "absent"
        \/ birth.longitude = "absent") =>
        /\ natal = [error |-> "ValueError"]
        /\ eph_calls = 0

\* a NatalContext has been built
NatalBuilt == pc # "birth" /\ "planet_longitudes" \in DOMAIN natal

\* C16: in every NatalContext built by compute_natal, of either engine,
\* ketu's longitude is normalize(rahu's longitude + 180): the two nodes are
\* half a turn apart and both lie in [0, 360).
C16_NodesOpposite ==
    NatalBuilt =>
        LET rahu == natal.planet_longitudes["rahu"]
            ketu == natal.planet_longitudes["ketu"]
        IN  /\ 0 <= rahu /\ rahu < Circle
            /\ 0 <= ketu /\ ketu < Circle
            /\ ketu = (rahu + HALF_TURN) % Circle
            /\ (ketu - rahu) % Circle = HALF_TURN

C16_Witness ==
    /\ NatalBuilt
    /\ engine = "engine_stub"
    /\ natal.planet_longitudes["rahu"] > HALF_TURN
    /\ natal.planet_longitudes["ketu"] < HALF_TURN

\* C17: an event name outside the policy set never makes the selection
\* fail: select_dba_windows resolves it to the default policy and returns
\* exactly what it returns for marriage with the same other inputs.
C17_UnknownEventDefaults ==
    (pc = "selected" /\ query.question \notin DOMAIN EVENT_POLICIES) =>
        LET r == select_dba_windows(engine, natal, periods, "marriage",
                                    query.direction, query.anchor)
        IN  /\ rows = r.rows
            /\ kept = r.kept

C17_Witness ==
    /\ pc = "selected"
    /\ query.question = "career"
    /\ query.anchor # None
    /\ engine = "engine"
    /\ Len(rows) = 12
    /\ select_dba_windows(engine, natal, periods, "travel", query.direction, query.anchor).rows # rows

\* reading a selection: the policy in force, the windows' ages as _age_on
\* measures them (whole days since birth over 365.2425), the triplets
AgeAtLeast(jd, years) == ((jd - natal.utc_birth_dt) \div DayTicks) * 10000 >= years * 3652425

AgeAtMost(jd, years) == ((jd - natal.utc_birth_dt) \div DayTicks) * 10000 <= years * 3652425

RowWindow(r) == IF r.praty # None THEN r.praty ELSE IF r.antara # None THEN r.antara ELSE r.maha

InAgeRange(r) ==
    /\ AgeAtLeast(RowWindow(r).end_jd, policy_for(query.question).age_min)
    /\ AgeAtMost(RowWindow(r).start_jd, policy_for(query.question).age_max)

AllTriplets == triplets(subdivide_vimshottari(engine, periods, 3).out)

TripleOf(r) == [maha |-> r.maha, antara |-> r.antara, praty |-> r.praty]

C19_DirectionFilter ==
    (pc = "selected" /\ query.anchor # None) =>
        /\ query.direction = "future" =>
            \A i \in 1..Len(rows) : RowWindow(rows[i]).end_jd > query.anchor.jd
        /\ query.direction = "past" =>
            \A i \in 1..Len(rows) : RowWindow(rows[i]).start_jd <= query.anchor.jd
        /\ query.direction = "nearest" =>
            rows = select_dba_windows(engine, natal, periods, query.question,
                                      "future", query.anchor).rows

\* what the code does: the direction changes nothing
DirectionIgnored ==
    pc = "selected" =>
        \A d \in Directions :
            rows = select_dba_windows(engine, natal, periods, query.question, d, query.anchor).rows

\* reading the scores: the significator weight of a lord on a list of
\* houses, the focus weight of a lord (tenths), and S(lord) in hundredths
\* with the focus weight counted `share` hundredths per tenth
SigWeight(m, l, h) == IF l \in DOMAIN m /\ h \in DOMAIN m[l] THEN m[l][h] ELSE 0

RECURSIVE SumOver(_, _, _, _)
SumOver(m, l, hs, i) ==
    IF i = 0 THEN 0 ELSE SigWeight(m, l, hs[i]) + SumOver(m, l, hs, i - 1)

FocusWeight(l) ==
    LET f == policy_for(query.question).focus_planets
    IN  IF l \in DOMAIN f THEN f[l] ELSE 0

PosSum(m, l) ==
    LET pol == policy_for(query.question)
    IN  SumOver(m, l, pol.houses_pos, Len(pol.houses_pos))

NegSum(m, l) ==
    LET pol == policy_for(query.question)
    IN  SumOver(m, l, pol.houses_neg, Len(pol.houses_neg))

LordScore(m, l, share) == 100 * PosSum(m, l) - 80 * NegSum(m, l) + share * FocusWeight(l)

\* the score of every kept row, in thousandths, from the per-lord scores
ScoresFollow(share) ==
    LET m == main_planet_significators(engine, natal)
        S == [l \in Lords |-> LordScore(m, l, share)]
    IN  \A i \in 1..Len(kept) :
            kept[i].score =
                3 * S[kept[i].maha.lord]
                + 6 * (IF kept[i].antara # None THEN S[kept[i].antara.lord] ELSE 0)
                + 10 * (IF kept[i].praty # None THEN S[kept[i].praty.lord] ELSE 0)
                + (IF kept[i].praty # None THEN 200 ELSE 0)

\* C20 as stated: for every kept triple score = 0.3*S(maha lord) +
\* 0.6*S(antara lord) + 1.0*S(pratyantara lord) + 0.2 when the pratyantara
\* is present, S(lord) being the lord's weights summed over the positive
\* houses minus 0.8 times the sum over the negative houses plus the
\* policy's focus weight of the lord; a missing level contributes 0.
C20_ScoreFormula == pc = "selected" => ScoresFollow(10)

\* C20 amended: the same, S(lord) taking half the policy's focus weight of
\* the lord (0.5 * focus_planets[lord]).
C20_ScoreFormulaHalfFocus == pc = "selected" => ScoresFollow(5)

C20_Witness ==
    /\ pc = "selected"
    /\ engine = "engine"
    /\ LET m == main_planet_significators(engine, natal)
       IN  \E i \in 1..Len(kept) :
            LET l == kept[i].praty.lord
            IN  /\ FocusWeight(l) > 0
                /\ PosSum(m, l) > 0
                /\ NegSum(m, l) > 0
                /\ kept[i].maha.lord # l

\* the composite key of the claim read on a row of select_dba_windows and on
\* a window of predict_event: (-score, distance to the anchor, start)
KeyLeq(a, b) ==
    \/ a[1] < b[1]
    \/ a[1] = b[1] /\ a[2] < b[2]
    \/ a[1] = b[1] /\ a[2] = b[2] /\ a[3] <= b[3]

StartGap(x) == Abs(x.start_jd - query.anchor.jd)

RowKey(r) == <<0 - r.score, StartGap(RowWindow(r)), RowWindow(r).start_jd>>

EventScore(x) == score_subperiod(engine, natal, x, query.question)

WindowKey(x) == <<0 - EventScore(x), StartGap(x), x.start_jd>>

\* C21: the ranked list of select_dba_windows with an anchor, and the
\* ranking of predict_event, are ordered by (-score, distance of the window
\* start to the anchor, start): of two consecutive candidates the earlier
\* one's key is less than or equal to the later one's.
C21_RankedByCompositeKey ==
    /\ (pc = "selected" /\ query.anchor # None) =>
            \A i \in 1..(Len(rows) - 1) : KeyLeq(RowKey(rows[i]), RowKey(rows[i + 1]))
    /\ pc = "chosen" =>
            \A i \in 1..(Len(ranked) - 1) : KeyLeq(WindowKey(ranked[i]), WindowKey(ranked[i + 1]))

\* two consecutive rows of select_dba_windows tied on score and distance,
\* which only the start tells apart
C21_Witness ==
    /\ pc = "selected"
    /\ query.anchor # None
    /\ \E i \in 1..(Len(rows) - 1) :
        /\ rows[i].score = rows[i + 1].score
        /\ StartGap(RowWindow(rows[i])) = StartGap(RowWindow(rows[i + 1]))
        /\ RowWindow(rows[i]).start_jd < RowWindow(rows[i + 1]).start_jd

StartsByAnchor(x) == x.start_jd <= query.anchor.jd

\* the windows of the hierarchy a 'past' request admits, with and without
\* the age floor
PastWindows == {i \in 1..Len(subs) : StartsByAnchor(subs[i])}

PastOfAge ==
    {i \in PastWindows : subs[i].start_jd - jd_ut >= min_age_for(query.question) * YearTicks}

SigMapNow == main_planet_significators(engine, natal)

ScoreWith(sm, x) == subperiod_score(sm, x, query.question)

\* w, scoring best, is the best and latest of the windows of the sequence s
\* numbered in C: none of them scores higher, and none scoring the same
\* starts later
BestLatest(sm, best, w, s, C) ==
    /\ \A i \in C : ScoreWith(sm, s[i]) <= best
    /\ \A i \in C : ScoreWith(sm, s[i]) = best => s[i].start_jd <= w.start_jd

\* C22: in predict_event with direction 'past', whenever the hierarchy has
\* a window starting at or before the anchor, the chosen window starts at or
\* before the anchor, has the maximum score among the candidates (the
\* windows of the pool), and among those tied at the maximum has the latest
\* start.
C22_PastPrefersLatest ==
    (pc = "chosen" /\ query.direction = "past" /\ PastWindows # {}) =>
        /\ StartsByAnchor(chosen)
        /\ \A sm \in {SigMapNow} : \A best \in {ScoreWith(sm, chosen)} :
                BestLatest(sm, best, chosen, pool, 1..Len(pool))

\* what holds of 'past': with a window of age at or before the anchor the
\* chosen one is one of those, and the best and latest of them
PastChoiceWhenOfAge ==
    (pc = "chosen" /\ query.direction = "past" /\ PastOfAge # {}) =>
        /\ \E i \in PastOfAge : subs[i] = chosen
        /\ \A sm \in {SigMapNow} : \A best \in {ScoreWith(sm, chosen)} :
                BestLatest(sm, best, chosen, subs, PastOfAge)

\* the direction filter and the age floor, read on one window
AdmittedByDirection(x) ==
    \/ query.direction = "future" /\ x.end_jd > query.anchor.jd
    \/ query.direction = "past" /\ x.start_jd <= query.anchor.jd
    \/ query.direction \notin {"future", "past"}

OfAge(x) == x.start_jd - jd_ut >= min_age_for(query.question) * YearTicks

\* the windows left by both filters, and by the direction filter alone
StrictPool == LET F(x) == AdmittedByDirection(x) /\ OfAge(x) IN SelectSeq(subs, F)

DirectionPool == SelectSeq(subs, AdmittedByDirection)

\* C23: when direction and age filtering leave no candidate, predict_event
\* relaxes in a fixed order for every direction: first the age filter alone
\* is dropped, the direction filter staying applied, and the direction
\* filter is dropped only if the pool is still empty.
C23_RelaxationOrder ==
    pc = "chosen" =>
        pool = IF StrictPool # <<>> THEN StrictPool
               ELSE IF DirectionPool # <<>> THEN DirectionPool
               ELSE subs

\* what holds: the order is kept for 'future' and 'nearest'
RelaxationOrderButPast ==
    (pc = "chosen" /\ query.direction # "past") =>
        pool = IF StrictPool # <<>> THEN StrictPool
               ELSE IF DirectionPool # <<>> THEN DirectionPool
               ELSE subs

\* the response says that a filter was dropped
FlagsRelaxation == \E k \in {"relaxed", "relaxation", "relaxation_applied"} : k \in DOMAIN resp

NoCandidatesError == "error" \in DOMAIN resp

\* C24: a relaxed selection is never returned as if it were complete: when
\* predict_event dropped the age or the direction filter (as for direction
\* 'future' with an anchor after the end of the ladder) its result reports
\* the relaxation or is a no-candidates error, and it never returns an
\* unflagged window that violates the requested direction.
C24_RelaxationFlagged ==
    pc = "chosen" =>
        /\ StrictPool = <<>> => (FlagsRelaxation \/ NoCandidatesError)
        /\ ~AdmittedByDirection(chosen) => (FlagsRelaxation \/ NoCandidatesError)

\* the scenario of the claim: a 'future' request answered, unflagged, with a
\* window that ends at or before the anchor
FutureAnsweredBehindAnchor ==
    /\ pc = "chosen"
    /\ query.direction = "future"
    /\ "window_end" \in DOMAIN resp
    /\ resp.window_end <= query.anchor.jd
    /\ ~FlagsRelaxation

OwnWindowOnly(t) ==
    /\ \A k \in 1..Len(reqs[t].key_dates) :
        /\ reqs[t].key_dates[k].from = reqs[t].window.from
        /\ reqs[t].key_dates[k].to = reqs[t].window.to
    /\ \A k \in 1..Len(reqs[t].phrased) :
        /\ reqs[t].phrased[k].from = reqs[t].window.from
        /\ reqs[t].phrased[k].to = reqs[t].window.to

\* C26: two /api/v1/predict requests for different births handled in
\* parallel share no mutable state: under every interleaving the key_dates
\* (from/to) and the phrased messages of each response come from that
\* request's own dasha window, never from the other request's.
C26_RequestsIsolated ==
    \A t \in Requests : reqs[t].pc = "done" => OwnWindowOnly(t)

\* what holds: a request answered while no other request has started is
\* made of its own window
AloneOwnWindow ==
    \A t \in Requests :
        (reqs[t].pc = "done" /\ \A u \in Requests \ {t} : reqs[u].pc = "start")
            => OwnWindowOnly(t)

\* a window of the hierarchy that has been subdivided further
Subdivided(x) ==
    \E i \in 1..Len(subs) :
        /\ subs[i].level = (IF x.level = "maha" THEN "antara" ELSE "pratyantara")
        /\ x.level # "pratyantara"
        /\ subs[i].parent = x.lord
        /\ x.start_jd <= subs[i].start_jd
        /\ subs[i].end_jd <= x.end_jd

\* C27: every candidate the selector ranks and returns is the
\* representative window of a (maha, antara, pratyantara) triple, the most
\* specific non-null period: with three levels the window chosen by
\* predict_event is a pratyantara, never a maha or an antara that has been
\* subdivided further.
C27_ChosenIsMostSpecific ==
    pc = "chosen" =>
        /\ chosen.level = "pratyantara"
        /\ ~Subdivided(chosen)

\* the part on the candidates ranked: the windows predict_event ranks are
\* all pratyantaras
RankedAreMostSpecific ==
    pc = "chosen" => \A i \in 1..Len(ranked) : ranked[i].level = "pratyantara"

\* what holds of select_dba_windows: the window of every row is the most
\* specific period of its triple
RowsAreMostSpecific ==
    pc = "selected" =>
        \A i \in 1..Len(kept) :
            /\ kept[i].praty # None
            /\ RowWindow(kept[i]).level = "pratyantara"

\* the (maha, antara, pratyantara) triples of a subdivision, read off the
\* order of emission: a maha, its antaras, then one run of pratyantaras
\* per antara
HierarchyTriplets(s) ==
    LET IsAntara(x) == x.level = "antara"
        OfMaha(i) ==
            LET nA == RunLen(s, i + 1, IsAntara)
                runs == PratyRuns(s, i + nA + 1, nA)
            IN  UNION {{[maha |-> s[i], antara |-> s[i + k], praty |-> runs[k][j]] :
                            j \in 1..Len(runs[k])} : k \in 1..Len(runs)}
    IN  UNION {OfMaha(i) : i \in {j \in 1..Len(s) : s[j].level = "maha"}}

EnumeratesHierarchy(s, t) ==
    /\ {t[i] : i \in 1..Len(t)} = HierarchyTriplets(s)
    /\ Cardinality({t[i] : i \in 1..Len(t)}) = Len(t)
    /\ \A m \in 1..Len(s) :
        s[m].level = "maha" => Cardinality({i \in 1..Len(t) : t[i].maha = s[m]}) <= 81

\* C28: select_dba_windows enumerates every (maha, antara, pratyantara)
\* triple of the three-level hierarchy exactly once: no triple is
\* duplicated, omitted or attached to the wrong parent, also when the lord
\* of the truncated first maha owns the maha that closes the horizon as
\* well, and a maha has at most 81 triples.
C28_TripletsEnumerateHierarchy ==
    pc = "selected" =>
        \A s \in {subdivide_vimshottari(engine, periods, 3).out} :
        \A t \in {triplets(s)} : EnumeratesHierarchy(s, t)

\* the same for the ladders whose every maha is at least a day long
TripletsEnumerateLongMahas ==
    (pc = "selected" /\ \A i \in 1..Len(periods) : periods[i].end_jd - periods[i].start_jd >= DayTicks) =>
        \A s \in {subdivide_vimshottari(engine, periods, 3).out} :
        \A t \in {triplets(s)} :
            /\ EnumeratesHierarchy(s, t)
            /\ Len(t) = 81 * Len(periods)

\* a ladder in which the first lord owns two mahas has been enumerated
LordOwnsTwoMahasSelected ==
    /\ pc = "selected"
    /\ engine = "engine"
    /\ Len(periods) = 10
    /\ periods[1].planet = periods[10].planet
    /\ periods[1].end_jd - periods[1].start_jd >= DayTicks

ParentSpan(f) == f.parent.end_jd - f.parent.start_jd

\* C29: engine.subdivide_vimshottari emits exactly 9 antaras for every maha
\* and exactly 9 pratyantaras for every antara of positive duration,
\* parents shorter than the early-exit tolerance included; the early exit
\* drops no child and leaves no part of the parent uncovered.
C29_NineChildrenPerParent ==
    (pc = "subdivided" /\ engine = "engine") =>
        \A f \in Families(subs) :
            ParentSpan(f) > 0 =>
                /\ Len(f.kids) = 9
                /\ f.kids[1].start_jd = f.parent.start_jd
                /\ f.kids[Len(f.kids)].end_jd = f.parent.end_jd

\* parents long enough for the rounding of the eight earlier children not
\* to reach the tolerance before the last one
LongParentTicks == 20 * (EPS_NANO + 5)

\* what holds: a long parent has its 9 children, the first at its start
NineChildrenOfLongParents ==
    (pc = "subdivided" /\ engine = "engine") =>
        \A f \in Families(subs) :
            ParentSpan(f) >= LongParentTicks =>
                /\ Len(f.kids) = 9
                /\ f.kids[1].start_jd = f.parent.start_jd

Nested(f) ==
    \A j \in 1..Len(f.kids) :
        /\ f.parent.start_jd <= f.kids[j].start_jd
        /\ f.kids[j].end_jd <= f.parent.end_jd
        /\ f.kids[j].parent = f.parent.lord
        /\ f.kids[j].level = (IF f.parent.level = "maha" THEN "antara" ELSE "pratyantara")

\* C30: in the hierarchy built by compute_vimshottari_dasha_for_birth and
\* engine.subdivide_vimshottari(levels=3) every emitted period has
\* start < end, every antara lies within its parent maha, every
\* pratyantara lies within its parent antara, and the recorded parent is
\* the lord of the enclosing period.
C30_NestingInvariant ==
    (pc = "subdivided" /\ engine = "engine") =>
        /\ \A i \in 1..Len(subs) : subs[i].start_jd < subs[i].end_jd
        /\ \A f \in Families(subs) : Nested(f)

\* what holds: the containment and the parent field, and no period ends
\* before it starts
NestingWithoutStrictness ==
    (pc = "subdivided" /\ engine = "engine") =>
        /\ \A i \in 1..Len(subs) : subs[i].start_jd <= subs[i].end_jd
        /\ \A f \in Families(subs) : Nested(f)

\* strictness holds in the ladders whose first maha is at least ten days long
StrictWhenFirstMahaLong ==
    (pc = "subdivided" /\ engine = "engine" /\ periods[1].end_jd - periods[1].start_jd >= 10 * DayTicks) =>
        \A i \in 1..Len(subs) : subs[i].start_jd < subs[i].end_jd

====
